---------------------------- MODULE Spec2Model ----------------------------
(***************************************************************************)
(* ThermaGraph: the GUI form (src/Frame.py, class MainWindow) and the      *)
(* plotting adapter (src/Plotter.py, class FluidDiagramPlotter).           *)
(*                                                                         *)
(* Numbers.  Python floats are modelled as exact rationals, kept in one    *)
(* normal form: every conversion is computed with the operations          *)
(* and in the order the source writes them, without binary rounding.       *)
(* "Equal" below therefore reads "equal up to floating-point rounding".    *)
(*                                                                         *)
(* Three specifications share the module:                                  *)
(*   SpecConv  the unit-conversion functions of MainWindow, applied to     *)
(*             bounded inputs;                                             *)
(*   SpecPlot  FluidDiagramPlotter on bounded inputs with a stub           *)
(*             equation-of-state collaborator;                             *)
(*   Spec      the MainWindow event handlers (edits, unit changes, file    *)
(*             selection, timers, update_plot).                            *)
(***************************************************************************)
EXTENDS Integers, Sequences, FiniteSets, TLC

VARIABLES
    \* ---- SpecConv: one value carried through a chain of conversions
    cKind,      \* quantity kind: "T", "p", "s", "h", "v" or "Q"
    cFrom,      \* the unit the value started in
    cOrig,      \* the value it started with
    cUnit,      \* the unit it is in now
    cVal,       \* its value now
    cDirect,    \* cOrig converted in one step from cFrom to cUnit
    cPath,      \* the units it was converted to, in order
    \* ---- SpecPlot: one FluidDiagramPlotter object
    pFluid,     \* fluid
    pUnits,     \* unit_system
    pDiagram,   \* diagram_type
    pInput,     \* the fluid_states argument of __init__
    pConns,     \* the connections argument of create_plot
    pPhase,     \* "new", "constructed", "init_failed", "plotted", "plot_failed"
    pStates,    \* self.states
    pErr,       \* the exception the last call raised, or "none"
    pAxes,      \* what was drawn on self.ax
    pCbar,      \* the color bar: its ticks and tick labels
    \* ---- Spec: the main window
    gForm,          \* the contents of the widgets
    gPreviousUnits, \* self.previous_units
    gFluidStates,   \* self.fluid_states
    gConnections,   \* self.connections
    gNeedsUpdate,   \* the Update Plot button is red ("needs update")
    gTimers,        \* single-shot timers that are pending
    gScheduled,     \* single-shot timers started so far
    gCanvas,        \* the canvas figure: its axes and what is drawn on them
    gLast,          \* the handler that ran last, the canvas before it, its log
    gAlive,         \* the process is running
    gEdits,         \* edits made by the user
    gCheckedEdits,  \* edits that marked the plot while Automatic Update was checked
    gAutoRuns       \* update_plot runs started by a timer

convVars == <<cKind, cFrom, cOrig, cUnit, cVal, cDirect, cPath>>

plotVars == <<pFluid, pUnits, pDiagram, pInput, pConns, pPhase, pStates, pErr,
              pAxes, pCbar>>

guiVars == <<gForm, gPreviousUnits, gFluidStates, gConnections, gNeedsUpdate,
             gTimers, gScheduled, gCanvas, gLast, gAlive, gEdits, gCheckedEdits,
             gAutoRuns>>

-----------------------------------------------------------------------------
(* Bounds of the model *)

\* conversions applied in a row to one value (SpecConv)
MaxHops == 2

\* samples (time steps) of one point in a fluid-states mapping
MaxSamples == 2

\* edits the user makes in the main window (Spec)
MaxEdits == 3

-----------------------------------------------------------------------------
(* Exact rational arithmetic *)

Abs(i) == IF i < 0 THEN -i ELSE i

RECURSIVE GCD(_, _)
GCD(a, b) == IF b = 0 THEN a ELSE GCD(b, a % b)

\* 10^k, k >= 0
RECURSIVE Pow10(_)
Pow10(k) == IF k = 0 THEN 1 ELSE 10 * Pow10(k - 1)

\* A number is <<n, d, e>>, standing for (n / d) * 10^e, in the one form
\* with n / d in lowest terms, d > 0 prime to 10 and n no multiple of 10
\* (zero is <<0, 1, 0>>): the factors 10^3, 10^5, 10^6 of the conversions
\* only move e.  Normal(n, d, e) is that form for n / d in lowest terms, d > 0.
RECURSIVE Normal(_, _, _)
Normal(n, d, e) ==
    IF n = 0 THEN <<0, 1, 0>>
    ELSE IF n % 10 = 0 THEN Normal(n \div 10, d, e + 1)
    ELSE IF d % 10 = 0 THEN Normal(n, d \div 10, e - 1)
    ELSE IF d % 2 = 0 THEN Normal(n * 5, d \div 2, e - 1)
    ELSE IF d % 5 = 0 THEN Normal(n * 2, d \div 5, e - 1)
    ELSE <<n, d, e>>

\* (n / d) * 10^e for any n and any d # 0
Sci(n, d, e) ==
    CHOOSE r \in {Normal(n \div g, d \div g, e) :
                    g \in {IF d < 0 THEN -GCD(Abs(n), Abs(d)) ELSE GCD(Abs(n), Abs(d))}} :
        TRUE

\* the number n / d
Rat(n, d) == Sci(n, d, 0)

RInt(i) == Normal(i, 1, 0)

\* (n1 / d1) * (n2 / d2) * 10^e, cancelling crosswise before multiplying
Prod(n1, d1, n2, d2, e) ==
    IF n1 = 0 \/ n2 = 0 THEN <<0, 1, 0>>
    ELSE CHOOSE r \in {Sci((n1 \div g1) * (n2 \div g2), (d1 \div g2) * (d2 \div g1), e) :
                         g1 \in {GCD(Abs(n1), Abs(d2))}, g2 \in {GCD(Abs(n2), Abs(d1))}} :
             TRUE

RMul(a, b) == Prod(a[1], a[2], b[1], b[2], a[3] + b[3])

\* b # 0
RDiv(a, b) == Prod(a[1], a[2], b[2], b[1], a[3] - b[3])

RAdd(a, b) ==
    IF a[3] < b[3]
    THEN Sci(a[1] * b[2] + b[1] * Pow10(b[3] - a[3]) * a[2], a[2] * b[2], a[3])
    ELSE Sci(a[1] * Pow10(a[3] - b[3]) * b[2] + b[1] * a[2], a[2] * b[2], b[3])

RSub(a, b) == RAdd(a, <<-b[1], b[2], b[3]>>)

\* the integer a number is, when it is one
RToInt(a) == a[1] * Pow10(a[3])

-----------------------------------------------------------------------------
(* Units offered by the combo boxes, Frame.py create_input_fields *)

PressureUnits    == {"bar", "hPa", "mbar", "psi", "kPa", "Pa", "MPa"}
TemperatureUnits == {"°C", "K", "°F"}
EntropyUnits     == {"J/kgK", "kJ/kgK", "MJ/kgK"}
EnthalpyUnits    == {"kJ/kg", "J/kg", "MJ/kg"}
VolumeUnits      == {"m^3/kg", "l/kg"}
FractionUnits    == {"-", "%"}

Kinds == {"p", "T", "s", "h", "v", "Q"}

UnitsOf(k) ==
    CASE k = "p" -> PressureUnits
      [] k = "T" -> TemperatureUnits
      [] k = "s" -> EntropyUnits
      [] k = "h" -> EnthalpyUnits
      [] k = "v" -> VolumeUnits
      [] k = "Q" -> FractionUnits

\* the first item of each combo box is the one selected at start
DefaultUnits ==
    [k \in Kinds |->
        CASE k = "p" -> "bar"
          [] k = "T" -> "°C"
          [] k = "s" -> "J/kgK"
          [] k = "h" -> "kJ/kg"
          [] k = "v" -> "m^3/kg"
          [] k = "Q" -> "-"]

-----------------------------------------------------------------------------
(* MainWindow's conversion functions *)

\* 273.15
KelvinOffset == Rat(27315, 100)

\* a mutation of convert_temperature: the °F -> K branch adds 273 instead
\* of 273.15, and the K -> °F branch forgets to subtract the offset
convert_temperature_mut(value, old_unit, new_unit) ==
    IF old_unit = new_unit THEN value
    ELSE IF old_unit = "K" /\ new_unit = "°C" THEN RSub(value, KelvinOffset)
    ELSE IF old_unit = "K" /\ new_unit = "°F"
        THEN RAdd(RDiv(RMul(value, RInt(9)), RInt(5)), RInt(32))
    ELSE IF old_unit = "°C" /\ new_unit = "K" THEN RAdd(value, KelvinOffset)
    ELSE IF old_unit = "°C" /\ new_unit = "°F"
        THEN RAdd(RDiv(RMul(value, RInt(9)), RInt(5)), RInt(32))
    ELSE IF old_unit = "°F" /\ new_unit = "K"
        THEN RAdd(RDiv(RMul(RSub(value, RInt(32)), RInt(5)), RInt(9)), RInt(273))
    ELSE IF old_unit = "°F" /\ new_unit = "°C"
        THEN RDiv(RMul(RSub(value, RInt(32)), RInt(5)), RInt(9))
    ELSE value

convert_temperature(value, old_unit, new_unit) ==
    IF old_unit = new_unit THEN value
    ELSE IF old_unit = "K" /\ new_unit = "°C" THEN RSub(value, KelvinOffset)
    ELSE IF old_unit = "K" /\ new_unit = "°F"
        THEN RAdd(RDiv(RMul(RSub(value, KelvinOffset), RInt(9)), RInt(5)), RInt(32))
    ELSE IF old_unit = "°C" /\ new_unit = "K" THEN RAdd(value, KelvinOffset)
    ELSE IF old_unit = "°C" /\ new_unit = "°F"
        THEN RAdd(RDiv(RMul(value, RInt(9)), RInt(5)), RInt(32))
    ELSE IF old_unit = "°F" /\ new_unit = "K"
        THEN RAdd(RDiv(RMul(RSub(value, RInt(32)), RInt(5)), RInt(9)), KelvinOffset)
    ELSE IF old_unit = "°F" /\ new_unit = "°C"
        THEN RDiv(RMul(RSub(value, RInt(32)), RInt(5)), RInt(9))
    ELSE value

\* the conversion_factors dictionaries; a unit that is no key of the
\* dictionary is a KeyError in Python
pressure_factors ==
    [u \in PressureUnits |->
        CASE u = "Pa"   -> RInt(1)
          [] u = "hPa"  -> RInt(100)
          [] u = "kPa"  -> RInt(1000)
          [] u = "mbar" -> RInt(100)
          [] u = "bar"  -> RInt(100000)
          [] u = "psi"  -> Rat(689476, 100)
          [] u = "MPa"  -> RInt(1000000)]

entropy_factors ==
    [u \in EntropyUnits |->
        CASE u = "J/kgK"  -> RInt(1)
          [] u = "kJ/kgK" -> RInt(1000)
          [] u = "MJ/kgK" -> RInt(1000000)]

enthalpy_factors ==
    [u \in EnthalpyUnits |->
        CASE u = "J/kg"  -> RInt(1)
          [] u = "kJ/kg" -> RInt(1000)
          [] u = "MJ/kg" -> RInt(1000000)]

volume_factors ==
    [u \in VolumeUnits |->
        CASE u = "m^3/kg" -> RInt(1)
          [] u = "l/kg"   -> Rat(1, 1000)]

\* value * conversion_factors[old_unit] / conversion_factors[new_unit]
convert_pressure(value, old_unit, new_unit) ==
    RDiv(RMul(value, pressure_factors[old_unit]), pressure_factors[new_unit])

convert_entropy(value, old_unit, new_unit) ==
    RDiv(RMul(value, entropy_factors[old_unit]), entropy_factors[new_unit])

convert_enthalpy(value, old_unit, new_unit) ==
    RDiv(RMul(value, enthalpy_factors[old_unit]), enthalpy_factors[new_unit])

\* a mutation of convert_volume: the factors are applied the wrong way round
\* when converting to l/kg
convert_volume_mut(value, old_unit, new_unit) ==
    IF new_unit = "l/kg"
    THEN RDiv(RMul(value, volume_factors[new_unit]), volume_factors[old_unit])
    ELSE RDiv(RMul(value, volume_factors[old_unit]), volume_factors[new_unit])

convert_volume(value, old_unit, new_unit) ==
    RDiv(RMul(value, volume_factors[old_unit]), volume_factors[new_unit])

\* The if/elif chain of convert_field on field_type.  No branch handles the
\* vapor fraction: the program has no conversion for it, and a value of that
\* kind is passed through unchanged whatever the units.
convert_by_field_type(field_type, value, old_unit, new_unit) ==
    IF field_type = "T" THEN convert_temperature(value, old_unit, new_unit)
    ELSE IF field_type = "p" THEN convert_pressure(value, old_unit, new_unit)
    ELSE IF field_type = "s" THEN convert_entropy(value, old_unit, new_unit)
    ELSE IF field_type = "h" THEN convert_enthalpy(value, old_unit, new_unit)
    ELSE IF field_type = "v" THEN convert_volume(value, old_unit, new_unit)
    ELSE value

-----------------------------------------------------------------------------
(* SpecConv: a value of some kind, in some unit, converted MaxHops times *)

\* the values converted: 0, 1, -40, 0.25, 18.5, 75
ConvValues == {Rat(0, 1), Rat(1, 1), Rat(-40, 1), Rat(1, 4), Rat(37, 2), Rat(75, 1)}

ConvInit ==
    /\ cKind \in Kinds
    /\ cFrom \in UnitsOf(cKind)
    /\ cOrig \in ConvValues
    /\ cUnit = cFrom
    /\ cVal = cOrig
    /\ cDirect = cOrig
    /\ cPath = <<>>

\* one call convert_<kind>(cVal, cUnit, new_unit)
Convert(new_unit) ==
    /\ Len(cPath) < MaxHops
    /\ cVal' = convert_by_field_type(cKind, cVal, cUnit, new_unit)
    /\ cDirect' = convert_by_field_type(cKind, cOrig, cFrom, new_unit)
    /\ cUnit' = new_unit
    /\ cPath' = Append(cPath, new_unit)
    /\ UNCHANGED <<cKind, cFrom, cOrig>>
    /\ UNCHANGED <<plotVars, guiVars>>

ConvNext == \E u \in UnitsOf(cKind) : Convert(u)

-----------------------------------------------------------------------------
(* Results of Python calls: a value, or the exception raised *)

Ok(v) == [err |-> "none", val |-> v]
Raise(e) == [err |-> e, val |-> <<>>]

\* the concatenation of a sequence of sequences
RECURSIVE Flatten(_)
Flatten(ss) == IF ss = <<>> THEN <<>> ELSE Head(ss) \o Flatten(Tail(ss))

\* range(n): 0, 1, ..., n-1
Range(n) == [i \in 1..n |-> i - 1]

-----------------------------------------------------------------------------
(* FluidDiagramPlotter, Plotter.py *)

DiagramTypes == {"Ts", "hs", "logph", "Th", "plogv"}

\* staticmethod bar_to_Pa: p_bar * 1e5
bar_to_Pa(p_bar) == RMul(p_bar, RInt(100000))

\* The equation-of-state collaborator (CoolProp's PropsSI), as a stub: fixed
\* T [K], S [J/kgK] and v = 1/D [m^3/kg] for a fluid it knows, a ValueError
\* for a name it does not know.
KnownFluids == {"CO2", "H2O"}

calculate_properties(fluid, p_pa, h_jkg) ==
    IF fluid = "CO2" THEN Ok(<<RInt(300), RInt(1500), Rat(1, 50)>>)
    ELSE IF fluid = "H2O" THEN Ok(<<RInt(400), RInt(7000), RInt(2)>>)
    ELSE Raise("ValueError")

P_convert_temperature(unit_system, T) ==
    IF unit_system["T"] = "°C" THEN RSub(T, KelvinOffset)
    ELSE IF unit_system["T"] = "°F"
        THEN RAdd(RDiv(RMul(RSub(T, KelvinOffset), RInt(9)), RInt(5)), RInt(32))
    ELSE T

P_convert_entropy(unit_system, S) ==
    IF unit_system["s"] = "kJ/kgK" THEN RDiv(S, RInt(1000))
    ELSE IF unit_system["s"] = "MJ/kgK" THEN RDiv(S, RInt(1000000))
    ELSE S

P_convert_volume(unit_system, v) ==
    IF unit_system["v"] = "l/kg" THEN RMul(v, RInt(1000)) ELSE v

\* psi: p_pa * 0.0001450377, written as 1450377 / 10^5 / 10^5
P_convert_pressure(unit_system, p_pa) ==
    IF unit_system["p"] = "hPa" THEN RDiv(p_pa, RInt(100))
    ELSE IF unit_system["p"] = "mbar" THEN RDiv(p_pa, RInt(100))
    ELSE IF unit_system["p"] = "psi"
        THEN RDiv(RDiv(RMul(p_pa, RInt(1450377)), RInt(100000)), RInt(100000))
    ELSE IF unit_system["p"] = "kPa" THEN RDiv(p_pa, RInt(1000))
    ELSE IF unit_system["p"] = "bar" THEN RDiv(p_pa, RInt(100000))
    ELSE IF unit_system["p"] = "MPa" THEN RDiv(p_pa, RInt(1000000))
    ELSE p_pa

\* a mutation of P_convert_enthalpy: the kJ/kg branch returns the value in J/kg
P_convert_enthalpy_mut(unit_system, h_jkg) ==
    IF unit_system["h"] = "kJ/kg" THEN h_jkg
    ELSE IF unit_system["h"] = "MJ/kg" THEN RDiv(h_jkg, RInt(1000000))
    ELSE h_jkg

P_convert_enthalpy(unit_system, h_jkg) ==
    IF unit_system["h"] = "kJ/kg" THEN RDiv(h_jkg, RInt(1000))
    ELSE IF unit_system["h"] = "MJ/kg" THEN RDiv(h_jkg, RInt(1000000))
    ELSE h_jkg

\* returns Ta, Sa, va, pa, ha
P_convert_units(unit_system, T, S, v, p_pa, h_jkg) ==
    << P_convert_temperature(unit_system, T),
       P_convert_entropy(unit_system, S),
       P_convert_volume(unit_system, v),
       P_convert_pressure(unit_system, p_pa),
       P_convert_enthalpy(unit_system, h_jkg) >>

\* a mutation of format_converted_state: the hs branch returns the
\* temperature in place of the enthalpy
format_converted_state_mut(diagram_type, Ta, Sa, va, pa, ha) ==
    IF diagram_type = "Ts" THEN Ok(<<Ta, Sa>>)
    ELSE IF diagram_type = "hs" THEN Ok(<<Ta, Sa>>)
    ELSE IF diagram_type = "logph" THEN Ok(<<pa, ha>>)
    ELSE IF diagram_type = "Th" THEN Ok(<<Ta, ha>>)
    ELSE IF diagram_type = "plogv" THEN Ok(<<va, pa>>)
    ELSE Raise("ValueError")

\* a mutation of format_converted_state: the final raise is replaced by a
\* fall-back to the Ts pair
format_converted_state_lenient(diagram_type, Ta, Sa, va, pa, ha) ==
    IF diagram_type = "Ts" THEN Ok(<<Ta, Sa>>)
    ELSE IF diagram_type = "hs" THEN Ok(<<ha, Sa>>)
    ELSE IF diagram_type = "logph" THEN Ok(<<pa, ha>>)
    ELSE IF diagram_type = "Th" THEN Ok(<<Ta, ha>>)
    ELSE IF diagram_type = "plogv" THEN Ok(<<va, pa>>)
    ELSE Ok(<<Ta, Sa>>)

format_converted_state(diagram_type, Ta, Sa, va, pa, ha) ==
    IF diagram_type = "Ts" THEN Ok(<<Ta, Sa>>)
    ELSE IF diagram_type = "hs" THEN Ok(<<ha, Sa>>)
    ELSE IF diagram_type = "logph" THEN Ok(<<pa, ha>>)
    ELSE IF diagram_type = "Th" THEN Ok(<<Ta, ha>>)
    ELSE IF diagram_type = "plogv" THEN Ok(<<va, pa>>)
    ELSE Raise("ValueError")

\* the body of convert_states' inner loop for one sample (p_bar, h_kjkg)
convert_sample(fluid, unit_system, target_diagram, sample) ==
    LET formatted(c) ==
            format_converted_state(target_diagram, c[1], c[2], c[3], c[4], c[5])
        converted(props, p_pa, h_jkg) ==
            IF props.err # "none" THEN props
            ELSE formatted(P_convert_units(unit_system, props.val[1], props.val[2],
                                           props.val[3], p_pa, h_jkg))
        calculated(p_pa, h_jkg) ==
            converted(calculate_properties(fluid, p_pa, h_jkg), p_pa, h_jkg)
    IN  calculated(bar_to_Pa(sample[1]), RMul(sample[2], RInt(1000)))

\* A fluid-states mapping is a sequence of <<point name, samples>> in the
\* order of the JSON object (a Python dict keeps insertion order).  The
\* first sample that raises ends the conversion with its exception.
convert_states(fluid, unit_system, fluid_states, target_diagram) ==
    LET collected(one) ==
            LET bad == {ij \in UNION {{<<i, j>> : j \in 1..Len(fluid_states[i][2])} :
                                        i \in 1..Len(fluid_states)} :
                            one[ij[1]][ij[2]].err # "none"}
                first == CHOOSE ij \in bad :
                            \A kl \in bad : ij[1] < kl[1] \/
                                            (ij[1] = kl[1] /\ ij[2] <= kl[2])
            IN  IF bad # {} THEN Raise(one[first[1]][first[2]].err)
                ELSE Ok([i \in 1..Len(fluid_states) |->
                            <<fluid_states[i][1],
                              [j \in 1..Len(fluid_states[i][2]) |-> one[i][j].val]>>])
    IN  collected([i \in 1..Len(fluid_states) |->
                      [j \in 1..Len(fluid_states[i][2]) |->
                          convert_sample(fluid, unit_system, target_diagram,
                                         fluid_states[i][2][j])]])

\* connection_line_styles()
connection_line_styles ==
    [t \in {"non-isentropic", "isentropic", "default"} |->
        CASE t = "non-isentropic" -> [color |-> "gray", linestyle |-> "-"]
          [] t = "isentropic"     -> [color |-> "green", linestyle |-> "--"]
          [] t = "default"        -> [color |-> "gray", linestyle |-> ":"]]

\* a mutation of line_style: a line type that is no key gets the
\* non-isentropic style
line_style_mut(line_type) ==
    IF line_type \in DOMAIN connection_line_styles
    THEN connection_line_styles[line_type]
    ELSE connection_line_styles["non-isentropic"]

\* line_styles.get(line_type, line_styles['default'])
line_style(line_type) ==
    IF line_type \in DOMAIN connection_line_styles
    THEN connection_line_styles[line_type]
    ELSE connection_line_styles["default"]

\* Python's "a in b" on strings; a name is its sequence of characters
IsSubstring(a, b) ==
    \E i \in 0..(Len(b) - Len(a)) : SubSeq(b, i + 1, i + Len(a)) = a

\* next(state for point, states in states.items() for state in states
\*      if name in point): StopIteration when the generator is empty
find_state(states, name) ==
    LET hits == Flatten([i \in 1..Len(states) |->
                    IF IsSubstring(name, states[i][1]) THEN states[i][2] ELSE <<>>])
    IN  IF hits = <<>> THEN Raise("StopIteration") ELSE Ok(Head(hits))

\* the ax.plot call of plot_connections for one connection
connection_line(states, conn) ==
    LET line(start_state, end_state) ==
            IF start_state.err # "none" THEN start_state
            ELSE IF end_state.err # "none" THEN end_state
            ELSE Ok(<<[xs |-> <<start_state.val[2], end_state.val[2]>>,
                       ys |-> <<start_state.val[1], end_state.val[1]>>,
                       style |-> line_style(conn[3])]>>)
    IN  line(find_state(states, conn[1]), find_state(states, conn[2]))

\* plot_connections: the lines drawn, in order, up to the first connection
\* whose lookup raises
plot_connections(states, connections) ==
    LET plotted(one) ==
            LET bad == {k \in 1..Len(connections) : one[k].err # "none"}
                stop == IF bad = {} THEN Len(connections) + 1
                        ELSE CHOOSE k \in bad : \A l \in bad : k <= l
            IN  [err |-> IF bad = {} THEN "none" ELSE one[stop].err,
                 lines |-> Flatten([k \in 1..(stop - 1) |-> one[k].val])]
    IN  plotted([k \in 1..Len(connections) |->
                    connection_line(states, connections[k])])

\* the markers and labels of plot_fluid_states: for (p, h) in point_states,
\* self.ax.plot(h, p) with the sample's index as its colour; the point's name
\* annotates its first sample
state_markers(states) ==
    Flatten([i \in 1..Len(states) |->
        [j \in 1..Len(states[i][2]) |->
            [x |-> states[i][2][j][2], y |-> states[i][2][j][1], color |-> j - 1]]])

state_labels(states) ==
    Flatten([i \in 1..Len(states) |->
        IF states[i][2] = <<>> THEN <<>>
        ELSE <<[text |-> states[i][1],
                x |-> states[i][2][1][2], y |-> states[i][2][1][1]]>>])

\* a mutation of add_color_bar: the ticks are range(num_states - 1)
add_color_bar_mut(states) ==
    IF states = <<>> THEN [err |-> "StopIteration", ticks |-> <<>>, labels |-> <<>>]
    ELSE LET num_states == Len(states[1][2])
         IN  [err |-> "none",
              ticks |-> Range(IF num_states > 0 THEN num_states - 1 ELSE 0),
              labels |-> [i \in 1..num_states |-> i]]

\* add_color_bar: num_states = len(next(iter(self.states.values()))),
\* set_ticks(range(num_states)), set_ticklabels(i + 1 for i in range(num_states))
add_color_bar(states) ==
    IF states = <<>> THEN [err |-> "StopIteration", ticks |-> <<>>, labels |-> <<>>]
    ELSE LET num_states == Len(states[1][2])
         IN  [err |-> "none",
              ticks |-> Range(num_states),
              labels |-> [i \in 1..num_states |-> Range(num_states)[i] + 1]]

NoAxes == [isolines |-> FALSE, markers |-> <<>>, labels |-> <<>>, lines |-> <<>>]
NoCbar == [present |-> FALSE, ticks |-> <<>>, labels |-> <<>>]

\* create_plot on freshly cleared axes: draw_isolines (the diagram-rendering
\* collaborator, which rejects a diagram type it does not know with a
\* ValueError), plot_fluid_states, plot_connections when the list is not
\* empty, add_color_bar.  What was drawn before an exception stays drawn.
create_plot(states, diagram_type, connections) ==
    LET drawn(conns) ==
            [isolines |-> TRUE, markers |-> state_markers(states),
             labels |-> state_labels(states), lines |-> conns.lines]
        finished(conns, cbar) ==
            IF conns.err # "none"
            THEN [err |-> conns.err, axes |-> drawn(conns), cbar |-> NoCbar]
            ELSE IF cbar.err # "none"
            THEN [err |-> cbar.err, axes |-> drawn(conns), cbar |-> NoCbar]
            ELSE [err |-> "none", axes |-> drawn(conns),
                  cbar |-> [present |-> TRUE, ticks |-> cbar.ticks,
                            labels |-> cbar.labels]]
    IN  IF diagram_type \notin DiagramTypes
        THEN [err |-> "ValueError", axes |-> NoAxes, cbar |-> NoCbar]
        ELSE finished(IF connections # <<>>
                      THEN plot_connections(states, connections)
                      ELSE [err |-> "none", lines |-> <<>>],
                      add_color_bar(states))

\* FluidDiagramPlotter.__init__: self.states = self.convert_states(...), then
\* FluidPropertyDiagram(fluid=self.fluid), which raises ValueError for a fluid
\* the equation-of-state library does not know, set_isolines, calc_isolines.
\* self.states is assigned only when convert_states returns.
plotter_init(fluid, unit_system, fluid_states, diagram_type) ==
    LET diagram(states) ==
            IF states.err # "none" THEN states
            ELSE IF fluid \notin KnownFluids THEN Raise("ValueError")
            ELSE states
    IN  diagram(convert_states(fluid, unit_system, fluid_states, diagram_type))

-----------------------------------------------------------------------------
(* SpecPlot: a plotter is constructed on bounded inputs, then create_plot *)

\* unit systems the plotter is given: the form's defaults, SI units, and a
\* mixed one
PlotUnitSystems ==
    { DefaultUnits,
      [k \in Kinds |-> CASE k = "p" -> "Pa" [] k = "T" -> "K" [] k = "s" -> "J/kgK"
                         [] k = "h" -> "J/kg" [] k = "v" -> "m^3/kg" [] k = "Q" -> "-"],
      [k \in Kinds |-> CASE k = "p" -> "MPa" [] k = "T" -> "°F" [] k = "s" -> "kJ/kgK"
                         [] k = "h" -> "MJ/kg" [] k = "v" -> "l/kg" [] k = "Q" -> "%"] }

\* point names, as character sequences: "1", "2", "10"
PointNameLists ==
    { <<>>, << <<"1">> >>, << <<"1">>, <<"2">> >>, << <<"1", "0">>, <<"1">> >> }

\* sample j of point i: p = 10 i + j bar, h = 100 i + 10 j kJ/kg
Sample(i, j) == <<RInt(10 * i + j), RInt(100 * i + 10 * j)>>

\* the mappings with the given names and 0..MaxSamples samples per point
FluidStatesInputs ==
    UNION { { [i \in 1..Len(names) |-> <<names[i], [j \in 1..counts[i] |-> Sample(i, j)]>>] :
                counts \in [1..Len(names) -> 0..MaxSamples] } :
            names \in PointNameLists }

ConnectionsInputs ==
    { <<>>,
      << << <<"1">>, <<"2">>, "isentropic" >> >>,
      << << <<"1">>, <<"1", "0">>, "non-isentropic" >>,
         << <<"1", "0">>, <<"1">>, "isobaric" >> >> }

\* a diagram type outside the five supported ones
UnsupportedType == "pT"

PlotInit ==
    /\ pFluid \in KnownFluids \cup {"Xe2"}
    /\ pUnits \in PlotUnitSystems
    /\ pDiagram \in DiagramTypes \cup {UnsupportedType}
    /\ pInput \in FluidStatesInputs
    /\ pConns \in ConnectionsInputs
    /\ pPhase = "new"
    /\ pStates = <<>>
    /\ pErr = "none"
    /\ pAxes = NoAxes
    /\ pCbar = NoCbar

\* FluidDiagramPlotter.__init__
Construct ==
    /\ pPhase = "new"
    /\ \E r \in {plotter_init(pFluid, pUnits, pInput, pDiagram)} :
           /\ pStates' = r.val
           /\ pErr' = r.err
           /\ pPhase' = IF r.err = "none" THEN "constructed" ELSE "init_failed"
    /\ UNCHANGED <<pFluid, pUnits, pDiagram, pInput, pConns, pAxes, pCbar>>
    /\ UNCHANGED <<convVars, guiVars>>

\* FluidDiagramPlotter.create_plot(connections)
CreatePlot ==
    /\ pPhase = "constructed"
    /\ \E r \in {create_plot(pStates, pDiagram, pConns)} :
           /\ pAxes' = r.axes
           /\ pCbar' = r.cbar
           /\ pErr' = r.err
           /\ pPhase' = IF r.err = "none" THEN "plotted" ELSE "plot_failed"
    /\ UNCHANGED <<pFluid, pUnits, pDiagram, pInput, pConns, pStates>>
    /\ UNCHANGED <<convVars, guiVars>>

PlotNext == Construct \/ CreatePlot

-----------------------------------------------------------------------------
(* MainWindow, Frame.py: the texts of the line edits *)

\* A line edit holds '' (empty), a text that is no number ('abc'), an
\* integer literal such as '20', or the str() of a float such as '20.0' or
\* '0.001'.  '20' and '20.0' are different texts of the same number.
EmptyText == [kind |-> "empty", num |-> RInt(0)]
BadText == [kind |-> "bad", num |-> RInt(0)]
IntText(n) == [kind |-> "int", num |-> RInt(n)]
FloatText(n, d) == [kind |-> "float", num |-> Rat(n, d)]

\* str(value) of a float
str(value) == [kind |-> "float", num |-> value]

\* float(text): ValueError for '' and for 'abc'
float(text) ==
    IF text.kind \in {"int", "float"} THEN Ok(text.num) ELSE Raise("ValueError")

\* int(text): ValueError unless the text is an integer literal
int(text) ==
    IF text.kind = "int" THEN Ok(RToInt(text.num)) ELSE Raise("ValueError")

\* not text.strip()
blank(text) == text.kind = "empty"

\* The numeric line edits: <<"axis", "xmin">> is xmin_input, <<"T", "start">>
\* is t_start_input, <<"p", "points">> is p_points_input, and so on.
AxisFields == {"axis"} \X {"xmin", "xmax", "ymin", "ymax"}
IsolineFields == Kinds \X {"start", "end", "points", "linewidth"}
Fields == AxisFields \cup IsolineFields

\* connect_signals: the line edits whose textChanged is connected to
\* mark_update_needed; the line-width edits are not in the list
line_edit_widgets ==
    AxisFields \cup (Kinds \X {"start", "end", "points"})

\* create_input_fields: the texts the line edits are created with
create_input_fields ==
    [f \in Fields |->
        CASE f = <<"axis", "xmin">> -> FloatText(1, 100)
          [] f = <<"axis", "xmax">> -> IntText(700)
          [] f = <<"axis", "ymin">> -> IntText(10)
          [] f = <<"axis", "ymax">> -> IntText(1000)
          [] f = <<"Q", "start">> -> IntText(0)
          [] f = <<"Q", "end">> -> IntText(1)
          [] f = <<"Q", "points">> -> IntText(2)
          [] f = <<"Q", "linewidth">> -> FloatText(5, 2)
          [] f = <<"T", "start">> -> IntText(25)
          [] f = <<"T", "end">> -> IntText(375)
          [] f = <<"p", "start">> -> FloatText(1, 100)
          [] f = <<"p", "end">> -> IntText(1000)
          [] f = <<"v", "start">> -> FloatText(1, 1000)
          [] f = <<"v", "end">> -> IntText(10)
          [] f = <<"s", "start">> -> IntText(1000)
          [] f = <<"s", "end">> -> IntText(10000)
          [] f = <<"h", "start">> -> IntText(0)
          [] f = <<"h", "end">> -> IntText(3600)
          [] f[2] = "points" -> IntText(0)
          [] OTHER -> FloatText(1, 1)]

\* The window's state as the handlers see it: the widgets' contents (form),
\* the attributes previous_units, fluid_states and connections (an attribute
\* that was never assigned has set = FALSE), the update button's style, the
\* pending single-shot timers, the canvas figure, and a log of what the
\* running handler did: dialogs shown, the exception that left the handler,
\* the kind of file-loading failure, whether a float()/int() call raised, the
\* stage at which update_plot's try block was left.
NoLog == [dialogs |-> 0, escaped |-> "none", load |-> "none",
          malformed |-> FALSE, stage |-> "none"]

Unset == [set |-> FALSE, val |-> <<>>]
Assigned(v) == [set |-> TRUE, val |-> v]

\* MplCanvas.__init__, and figure.clear() followed by add_subplot(111): one
\* empty axes
EmptyCanvas == [axes |-> NoAxes, cbar |-> NoCbar]

\* show_error_message: a modal dialog
show_error_message(w) == [w EXCEPT !.log.dialogs = @ + 1]

\* a mutation of mark_update_needed: a new timer replaces the pending ones
mark_update_needed_mut(w) ==
    IF w.form.auto
    THEN [w EXCEPT !.needs_update = TRUE, !.timers = 1, !.scheduled = @ + 1]
    ELSE [w EXCEPT !.needs_update = TRUE]

\* mark_update_needed: the button turns red; with the checkbox checked,
\* QTimer.singleShot(2000, self.auto_update_plot).  scheduled counts the
\* timers ever started.
mark_update_needed(w) ==
    IF w.form.auto
    THEN [w EXCEPT !.needs_update = TRUE, !.timers = @ + 1, !.scheduled = @ + 1]
    ELSE [w EXCEPT !.needs_update = TRUE]

\* QLineEdit.setText: textChanged is emitted only when the text differs, and
\* runs mark_update_needed for the connected line edits
setText(w, field, text) ==
    IF w.form.text[field] = text THEN w
    ELSE LET w1 == [w EXCEPT !.form.text[field] = text]
         IN  IF field \in line_edit_widgets THEN mark_update_needed(w1) ELSE w1

\* setText for a sequence of <<field, text>> pairs, in order
RECURSIVE setTexts(_, _)
setTexts(w, pairs) ==
    IF pairs = <<>> THEN w
    ELSE setTexts(setText(w, Head(pairs)[1], Head(pairs)[2]), Tail(pairs))

\* set_isoline_defaults, with the twelve texts in the order of its setText calls
set_isoline_defaults(w, h_start, h_end, p_start, p_end, s_start, s_end, t_start, t_end, v_start, v_end, q_start, q_end) ==
    setTexts(w, << <<<<"h", "start">>, h_start>>, <<<<"h", "end">>, h_end>>,
                   <<<<"p", "start">>, p_start>>, <<<<"p", "end">>, p_end>>,
                   <<<<"s", "start">>, s_start>>, <<<<"s", "end">>, s_end>>,
                   <<<<"T", "start">>, t_start>>, <<<<"T", "end">>, t_end>>,
                   <<<<"v", "start">>, v_start>>, <<<<"v", "end">>, v_end>>,
                   <<<<"Q", "start">>, q_start>>, <<<<"Q", "end">>, q_end>> >>)

\* get_axis_units(diagram_type, units): the units of the x and the y axis
get_axis_units(diagram_type, units) ==
    CASE diagram_type = "Ts"    -> <<units["s"], units["T"]>>
      [] diagram_type = "hs"    -> <<units["s"], units["h"]>>
      [] diagram_type = "logph" -> <<units["h"], units["p"]>>
      [] diagram_type = "Th"    -> <<units["h"], units["T"]>>
      [] diagram_type = "plogv" -> <<units["v"], units["p"]>>

\* update_axis_limits: the axis limits take the texts of the start/end edits
\* of two quantities (the four setText calls change no start or end edit, so
\* the texts they read are those of w)
update_axis_limits(w, diagram_type) ==
    LET x == CASE diagram_type \in {"Ts", "hs"}    -> "s"
               [] diagram_type \in {"logph", "Th"} -> "h"
               [] diagram_type = "plogv"           -> "v"
        y == CASE diagram_type \in {"Ts", "Th"}       -> "T"
               [] diagram_type = "hs"                 -> "h"
               [] diagram_type \in {"logph", "plogv"} -> "p"
    IN  setTexts(w, << <<<<"axis", "xmin">>, w.form.text[<<x, "start">>]>>,
                       <<<<"axis", "xmax">>, w.form.text[<<x, "end">>]>>,
                       <<<<"axis", "ymin">>, w.form.text[<<y, "start">>]>>,
                       <<<<"axis", "ymax">>, w.form.text[<<y, "end">>]>> >>)

\* update_default_isoline_values: the default ranges of H2O or CO2 (any
\* other fluid name leaves the ranges alone), the axis limits of the
\* selected diagram type, mark_update_needed
update_default_isoline_values(w) ==
    LET limits(w1) == mark_update_needed(update_axis_limits(w1, w1.form.diagram))
    IN  limits(IF w.form.fluid = "H2O"
               THEN set_isoline_defaults(w, IntText(0), IntText(3500),
                        FloatText(1, 100), IntText(10000), IntText(100),
                        IntText(9000), IntText(40), IntText(400),
                        FloatText(1, 100), IntText(100), IntText(0), IntText(1))
               ELSE IF w.form.fluid = "CO2"
               THEN set_isoline_defaults(w, IntText(0), IntText(700),
                        IntText(20), IntText(1020), IntText(700),
                        IntText(2100), IntText(10), IntText(310),
                        FloatText(1, 1000), FloatText(1, 50), IntText(0), IntText(1))
               ELSE w)

\* what a call that may raise leaves behind: the window, and the exception
Step(w, err) == [w |-> w, err |-> err]

\* get_unit_system
get_unit_system(w) == w.form.units

\* convert_field with the early return taken only when both texts are blank
convert_field_mut(w, old_unit, new_unit, field_type) ==
    LET inputs == << <<field_type, "start">>, <<field_type, "end">> >>
    IN  IF \A i \in 1..2 : blank(w.form.text[inputs[i]])
        THEN Step(w, "none")
        ELSE IF \E i \in 1..2 : float(w.form.text[inputs[i]]).err # "none"
        THEN Step([w EXCEPT !.log.malformed = TRUE], "ValueError")
        ELSE Step(setTexts(w, [i \in 1..2 |->
                     <<inputs[i], str(convert_by_field_type(field_type,
                                          float(w.form.text[inputs[i]]).val,
                                          old_unit, new_unit))>>]),
                  "none")

\* convert_field: nothing when start or end is blank; float() of both texts;
\* the conversion of field_type; setText(str(...)) of both
convert_field(w, old_unit, new_unit, field_type) ==
    LET inputs == << <<field_type, "start">>, <<field_type, "end">> >>
    IN  IF \E i \in 1..2 : blank(w.form.text[inputs[i]])
        THEN Step(w, "none")
        ELSE IF \E i \in 1..2 : float(w.form.text[inputs[i]]).err # "none"
        THEN Step([w EXCEPT !.log.malformed = TRUE], "ValueError")
        ELSE Step(setTexts(w, [i \in 1..2 |->
                     <<inputs[i], str(convert_by_field_type(field_type,
                                          float(w.form.text[inputs[i]]).val,
                                          old_unit, new_unit))>>]),
                  "none")

\* convert_value: the conversion is chosen by diagram type and axis
convert_value(value, old_unit, new_unit, diagram_type, axis) ==
    IF old_unit = new_unit THEN Ok(value)
    ELSE IF diagram_type \in {"Ts", "Th"}
    THEN IF axis = "x"
         THEN IF {old_unit, new_unit} \subseteq DOMAIN entropy_factors
              THEN Ok(convert_entropy(value, old_unit, new_unit))
              ELSE Raise("KeyError")
         ELSE Ok(convert_temperature(value, old_unit, new_unit))
    ELSE IF diagram_type \in {"hs", "logph"}
    THEN IF axis = "x"
         THEN IF {old_unit, new_unit} \subseteq DOMAIN enthalpy_factors
              THEN Ok(convert_enthalpy(value, old_unit, new_unit))
              ELSE Raise("KeyError")
         ELSE IF {old_unit, new_unit} \subseteq DOMAIN pressure_factors
              THEN Ok(convert_pressure(value, old_unit, new_unit))
              ELSE Raise("KeyError")
    ELSE IF diagram_type = "plogv"
    THEN IF axis = "x"
         THEN IF {old_unit, new_unit} \subseteq DOMAIN volume_factors
              THEN Ok(convert_volume(value, old_unit, new_unit))
              ELSE Raise("KeyError")
         ELSE IF {old_unit, new_unit} \subseteq DOMAIN pressure_factors
              THEN Ok(convert_pressure(value, old_unit, new_unit))
              ELSE Raise("KeyError")
    ELSE Ok(value)

\* convert_diagram_axis_limits: nothing when one of the four limits is
\* blank; the four values are parsed and converted in the order xmin, xmax,
\* ymin, ymax, and the first exception ends the call before any setText
convert_diagram_axis_limits(w, old_units, new_units) ==
    LET names == <<"xmin", "xmax", "ymin", "ymax">>
        axis == <<"x", "x", "y", "y">>
        of == <<1, 1, 2, 2>>
        set(one) ==
            LET bad == {i \in 1..4 : one[i].err # "none"}
                first == CHOOSE i \in bad : \A j \in bad : i <= j
            IN  IF bad # {}
                THEN Step([w EXCEPT !.log.malformed = @ \/ one[first].err = "ValueError"],
                          one[first].err)
                ELSE Step(setTexts(w, [i \in 1..4 |->
                                        <<<<"axis", names[i]>>, str(one[i].val)>>]),
                          "none")
        converted(old, new) ==
            set([i \in 1..4 |->
                    IF float(w.form.text[<<"axis", names[i]>>]).err # "none"
                    THEN Raise("ValueError")
                    ELSE convert_value(float(w.form.text[<<"axis", names[i]>>]).val,
                                       old[of[i]], new[of[i]], w.form.diagram, axis[i])])
    IN  IF \E i \in 1..4 : blank(w.form.text[<<"axis", names[i]>>])
        THEN Step(w, "none")
        ELSE converted(get_axis_units(w.form.diagram, old_units),
                       get_axis_units(w.form.diagram, new_units))

\* the convert_field calls of convert_units for the kinds in field_types,
\* in order, up to the first that raises
RECURSIVE convert_fields(_, _, _)
convert_fields(w, current_units, field_types) ==
    LET rest(s) == IF s.err # "none" THEN s
                   ELSE convert_fields(s.w, current_units, Tail(field_types))
    IN  IF field_types = <<>> THEN Step(w, "none")
        ELSE rest(convert_field(w, w.previous_units[Head(field_types)],
                                current_units[Head(field_types)], Head(field_types)))

\* convert_units, the slot of the unit combo boxes of p, T, s, h and v: the
\* fields of T, p, s, h, v, then the axis limits, then previous_units.  An
\* exception leaves the slot at once: what was converted before stays
\* converted and previous_units keeps its old value.
convert_units(w) ==
    LET stored(s) ==
            IF s.err # "none" THEN [s.w EXCEPT !.log.escaped = s.err]
            ELSE [s.w EXCEPT !.previous_units = get_unit_system(s.w)]
        limits(s) ==
            IF s.err # "none" THEN [s.w EXCEPT !.log.escaped = s.err]
            ELSE stored(convert_diagram_axis_limits(s.w, s.w.previous_units,
                                                    get_unit_system(s.w)))
    IN  limits(convert_fields(w, get_unit_system(w), <<"T", "p", "s", "h", "v">>))

-----------------------------------------------------------------------------
(* The files the form can be pointed at *)

\* states.json: points "1" and "2" with one sample each
StatesFile ==
    << << <<"1">>, <<Sample(1, 1)>> >>, << <<"2">>, <<Sample(2, 1)>> >> >>

\* cycle.json: one connection between the two points
CycleFile == << << <<"1">>, <<"2">>, "isentropic" >> >>

\* loose.json: a connection to a point the states file does not have
LooseFile == << << <<"1">>, <<"3">>, "isentropic" >> >>

\* the files that exist; notes.txt holds no JSON; nofile.json does not exist
ExistingFiles == {"states.json", "cycle.json", "loose.json", "notes.txt"}

\* load_json_file: open(file_path) and json.load
load_json_file(file_path) ==
    IF file_path \notin ExistingFiles THEN Raise("FileNotFoundError")
    ELSE IF file_path = "states.json" THEN Ok(StatesFile)
    ELSE IF file_path = "cycle.json" THEN Ok(CycleFile)
    ELSE IF file_path = "loose.json" THEN Ok(LooseFile)
    ELSE Raise("JSONDecodeError")

\* the kind of loading failure an exception of load_json_file stands for
load_failure(err) ==
    IF err = "FileNotFoundError" THEN "missing" ELSE "invalid"

\* load_json_files: the states file, then the connections file; an empty
\* path raises ValueError; every exception is caught, shown in a dialog and
\* not raised again, so the call always returns
load_json_files(w) ==
    LET states == load_json_file(w.form.states_path)
        conns  == load_json_file(w.form.conns_path)
        failed(x, kind) == show_error_message([x EXCEPT !.log.load = kind])
    IN  IF w.form.states_path = "" THEN failed(w, "empty")
        ELSE IF states.err # "none" THEN failed(w, load_failure(states.err))
        ELSE LET w1 == [w EXCEPT !.fluid_states = Assigned(states.val)]
             IN  IF w.form.conns_path = "" THEN failed(w1, "empty")
                 ELSE IF conns.err # "none" THEN failed(w1, load_failure(conns.err))
                 ELSE [w1 EXCEPT !.connections = Assigned(conns.val)]

\* the outcome of one float() or int() call of update_plot's parsing:
\* "ok", "empty" for '', "malformed" for any other text that is no number
parse_float(text) ==
    IF float(text).err = "none" THEN "ok"
    ELSE IF blank(text) THEN "empty" ELSE "malformed"

parse_int(text) ==
    IF int(text).err = "none" THEN "ok"
    ELSE IF blank(text) THEN "empty" ELSE "malformed"

\* the first outcome other than "ok" of a sequence of outcomes, or "ok"
RECURSIVE first_failure(_)
first_failure(outcomes) ==
    IF outcomes = <<>> THEN "ok"
    ELSE IF Head(outcomes) # "ok" THEN Head(outcomes)
    ELSE first_failure(Tail(outcomes))

\* get_axis_limits: float() of xmin, xmax, ymin, ymax
get_axis_limits(form) ==
    first_failure([i \in 1..4 |->
        parse_float(form.text[<<"axis", <<"xmin", "xmax", "ymin", "ymax">>[i]>>])])

\* get_isoline_settings: for Q, T, p, v, s, h in this order float(start),
\* float(end), int(points), then np.linspace (Q, T, s, h) or np.geomspace
\* (p, v).  A negative number of points is a ValueError of both, a start or
\* end of zero a ValueError of geomspace: outcome "range".
get_isoline_settings(form) ==
    LET order == <<"Q", "T", "p", "v", "s", "h">>
        space(k) ==
            IF int(form.text[<<k, "points">>]).val < 0 THEN "range"
            ELSE IF k \in {"p", "v"} /\
                    (float(form.text[<<k, "start">>]).val[1] = 0 \/
                     float(form.text[<<k, "end">>]).val[1] = 0) THEN "range"
            ELSE "ok"
        one(k) ==
            LET parsed == first_failure(<<parse_float(form.text[<<k, "start">>]),
                                          parse_float(form.text[<<k, "end">>]),
                                          parse_int(form.text[<<k, "points">>])>>)
            IN  IF parsed # "ok" THEN parsed ELSE space(k)
    IN  first_failure([i \in 1..6 |-> one(order[i])])

\* get_isoline_styles: float() of the line widths of Q, T, p, v, s, h
get_isoline_styles(form) ==
    first_failure([i \in 1..6 |->
        parse_float(form.text[<<<<"Q", "T", "p", "v", "s", "h">>[i], "linewidth">>])])

\* the part of update_plot's try block after the fields are parsed: the
\* figure is cleared and gets a new axes, the plotter is constructed from
\* self.fluid_states, create_plot draws with self.connections (what was
\* drawn before an exception stays on the axes), the button's style is reset
redraw(w) ==
    LET drawn(plot) ==
            IF plot.err # "none"
            THEN show_error_message(
                     [w EXCEPT !.canvas = [axes |-> plot.axes, cbar |-> plot.cbar],
                               !.log.stage = "draw"])
            ELSE [w EXCEPT !.canvas = [axes |-> plot.axes, cbar |-> plot.cbar],
                           !.needs_update = FALSE]
        constructed(plotter) ==
            IF plotter.err # "none"
            THEN show_error_message([w EXCEPT !.canvas = EmptyCanvas,
                                              !.log.stage = "construct"])
            ELSE drawn(IF ~w.connections.set
                       THEN [err |-> "AttributeError", axes |-> NoAxes, cbar |-> NoCbar]
                       ELSE create_plot(plotter.val, w.form.diagram, w.connections.val))
    IN  constructed(IF ~w.fluid_states.set THEN Raise("AttributeError")
                    ELSE plotter_init(w.form.fluid, w.form.units, w.fluid_states.val,
                                      w.form.diagram))

\* update_plot.  In the try block: load_json_files (which returns whatever
\* happened), then the fields are parsed, then the plot is redrawn.  Both
\* except clauses show a dialog; nothing leaves the handler.
update_plot(w) ==
    LET parsed(w1, outcome) ==
            IF outcome # "ok"
            THEN show_error_message(
                     [w1 EXCEPT !.log.stage = "parse",
                                !.log.malformed = (outcome = "malformed")])
            ELSE redraw(w1)
        loaded(w1) ==
            parsed(w1, first_failure(<<get_axis_limits(w1.form),
                                       get_isoline_settings(w1.form),
                                       get_isoline_styles(w1.form)>>))
    IN  loaded(load_json_files(w))

\* auto_update_plot, the slot of the timers
auto_update_plot(w) == update_plot(w)

\* select_fluid_states_file: a cancelled dialog returns '' and nothing
\* happens; otherwise the path is put in the line edit (textChanged runs
\* mark_update_needed) and the file is loaded with no handler around it
select_fluid_states_file(w, file_name) ==
    LET w1 == IF w.form.states_path = file_name THEN w
              ELSE mark_update_needed([w EXCEPT !.form.states_path = file_name])
        content == load_json_file(file_name)
    IN  IF file_name = "" THEN w
        ELSE IF content.err # "none"
        THEN [w1 EXCEPT !.log.escaped = content.err,
                        !.log.load = load_failure(content.err)]
        ELSE [w1 EXCEPT !.fluid_states = Assigned(content.val)]

\* select_connections_file: the same for the connections
select_connections_file(w, file_name) ==
    LET w1 == IF w.form.conns_path = file_name THEN w
              ELSE mark_update_needed([w EXCEPT !.form.conns_path = file_name])
        content == load_json_file(file_name)
    IN  IF file_name = "" THEN w
        ELSE IF content.err # "none"
        THEN [w1 EXCEPT !.log.escaped = content.err,
                        !.log.load = load_failure(content.err)]
        ELSE [w1 EXCEPT !.connections = Assigned(content.val)]

-----------------------------------------------------------------------------
(* Spec: the window after construction, and its event handlers.  A handler  *)
(* runs to its end before the next event is taken.                          *)

\* the window as the next handler finds it
Window ==
    [form |-> gForm, previous_units |-> gPreviousUnits,
     fluid_states |-> gFluidStates, connections |-> gConnections,
     needs_update |-> gNeedsUpdate, timers |-> gTimers, scheduled |-> gScheduled,
     canvas |-> gCanvas, log |-> NoLog]

\* MainWindow.__init__: the widgets as created, the signals connected,
\* update_default_isoline_values, previous_units.  fluid_states and
\* connections are not assigned.
MainWindow ==
    LET created ==
            [form |-> [fluid |-> "CO2", units |-> DefaultUnits, diagram |-> "Ts",
                       text |-> create_input_fields,
                       color |-> [k \in Kinds |-> "blue"],
                       style |-> [k \in Kinds |-> "-"],
                       auto |-> FALSE, states_path |-> "", conns_path |-> ""],
             previous_units |-> DefaultUnits,
             fluid_states |-> Unset, connections |-> Unset,
             needs_update |-> FALSE, timers |-> 0, scheduled |-> 0,
             canvas |-> EmptyCanvas, log |-> NoLog]
        shown(w) == [w EXCEPT !.previous_units = get_unit_system(w)]
    IN  shown(update_default_isoline_values(created))

GuiInit ==
    \E w \in {MainWindow} :
        /\ gForm = w.form
        /\ gPreviousUnits = w.previous_units
        /\ gFluidStates = w.fluid_states
        /\ gConnections = w.connections
        /\ gNeedsUpdate = w.needs_update
        /\ gTimers = w.timers
        /\ gScheduled = w.scheduled
        /\ gCanvas = w.canvas
        /\ gLast = [handler |-> "__init__", before |-> EmptyCanvas, log |-> NoLog]
        /\ gAlive = TRUE
        /\ gEdits = 0
        /\ gCheckedEdits = 0
        /\ gAutoRuns = 0

\* The handler named handler ran and left the window w.  An exception that
\* leaves a slot is printed and the event loop goes on, or ends the process
\* (PyQt5 from 5.5 on calls qFatal): both outcomes are possible.
Handled(handler, w) ==
    /\ gForm' = w.form
    /\ gPreviousUnits' = w.previous_units
    /\ gFluidStates' = w.fluid_states
    /\ gConnections' = w.connections
    /\ gNeedsUpdate' = w.needs_update
    /\ gTimers' = w.timers
    /\ gScheduled' = w.scheduled
    /\ gCanvas' = w.canvas
    /\ gLast' = [handler |-> handler, before |-> gCanvas, log |-> w.log]
    /\ gAlive' \in (IF w.log.escaped = "none" THEN {TRUE} ELSE BOOLEAN)

\* one more edit by the user; it counts as an edit under automatic update
\* when the checkbox is checked and the edit reached mark_update_needed
Edited(w) ==
    /\ gEdits' = gEdits + 1
    /\ gCheckedEdits' = IF gForm.auto /\ w.scheduled > gScheduled
                        THEN gCheckedEdits + 1 ELSE gCheckedEdits
    /\ UNCHANGED gAutoRuns

CanEdit == gAlive /\ gEdits < MaxEdits

\* what the user does in the model
FluidNames == {"CO2", "H2O", "CO"}

TypedTexts ==
    { <<<<"T", "start">>, BadText>>,
      <<<<"axis", "xmin">>, EmptyText>>,
      <<<<"s", "start">>, EmptyText>>,
      <<<<"p", "points">>, IntText(3)>>,
      <<<<"Q", "linewidth">>, IntText(2)>> }

TypedPaths == {"", "nofile.json"}

UnitMenu(k) ==
    CASE k = "p" -> {"bar", "MPa"}
      [] k = "T" -> {"°C", "K"}
      [] k = "s" -> {"J/kgK", "kJ/kgK"}
      [] k = "h" -> {"kJ/kg", "MJ/kg"}
      [] k = "v" -> {"m^3/kg", "l/kg"}
      [] k = "Q" -> {"-", "%"}

\* the fluid name is replaced: textChanged runs mark_update_needed, then
\* update_default_isoline_values
EditFluid(fluid) ==
    /\ CanEdit /\ fluid # gForm.fluid
    /\ \E w1 \in {mark_update_needed([Window EXCEPT !.form.fluid = fluid])} :
       \E w \in {update_default_isoline_values(w1)} :
          Handled("update_default_isoline_values", w) /\ Edited(w)
    /\ UNCHANGED <<convVars, plotVars>>

\* the text of a numeric line edit is replaced
EditField(field, text) ==
    /\ CanEdit /\ text # gForm.text[field]
    /\ \E w \in {setText(Window, field, text)} :
          Handled("mark_update_needed", w) /\ Edited(w)
    /\ UNCHANGED <<convVars, plotVars>>

\* a path is typed into fluid_states_input
EditStatesPath(path) ==
    /\ CanEdit /\ path # gForm.states_path
    /\ \E w \in {mark_update_needed([Window EXCEPT !.form.states_path = path])} :
          Handled("mark_update_needed", w) /\ Edited(w)
    /\ UNCHANGED <<convVars, plotVars>>

\* a path is typed into connections_input
EditConnectionsPath(path) ==
    /\ CanEdit /\ path # gForm.conns_path
    /\ \E w \in {mark_update_needed([Window EXCEPT !.form.conns_path = path])} :
          Handled("mark_update_needed", w) /\ Edited(w)
    /\ UNCHANGED <<convVars, plotVars>>

\* another unit is selected: currentIndexChanged runs mark_update_needed,
\* then convert_units (not connected for the vapor fraction)
SelectUnit(kind, unit) ==
    /\ CanEdit /\ unit # gForm.units[kind]
    /\ \E w1 \in {mark_update_needed([Window EXCEPT !.form.units[kind] = unit])} :
       \E w \in {IF kind = "Q" THEN w1 ELSE convert_units(w1)} :
          /\ Handled(IF kind = "Q" THEN "mark_update_needed" ELSE "convert_units", w)
          /\ Edited(w)
    /\ UNCHANGED <<convVars, plotVars>>

\* another diagram type is selected: mark_update_needed, then
\* update_default_isoline_values
SelectDiagram(diagram_type) ==
    /\ CanEdit /\ diagram_type # gForm.diagram
    /\ \E w1 \in {mark_update_needed([Window EXCEPT !.form.diagram = diagram_type])} :
       \E w \in {update_default_isoline_values(w1)} :
          Handled("update_default_isoline_values", w) /\ Edited(w)
    /\ UNCHANGED <<convVars, plotVars>>

\* another colour is selected for the isolines of a kind
SelectColor(kind, color) ==
    /\ CanEdit /\ color # gForm.color[kind]
    /\ \E w \in {mark_update_needed([Window EXCEPT !.form.color[kind] = color])} :
          Handled("mark_update_needed", w) /\ Edited(w)
    /\ UNCHANGED <<convVars, plotVars>>

\* another line style is selected for the isolines of a kind
SelectStyle(kind, style) ==
    /\ CanEdit /\ style # gForm.style[kind]
    /\ \E w \in {mark_update_needed([Window EXCEPT !.form.style[kind] = style])} :
          Handled("mark_update_needed", w) /\ Edited(w)
    /\ UNCHANGED <<convVars, plotVars>>

\* the Automatic Update checkbox is clicked; no slot is connected to it
ToggleAuto ==
    /\ CanEdit
    /\ \E w \in {[Window EXCEPT !.form.auto = ~@]} :
          Handled("none", w) /\ Edited(w)
    /\ UNCHANGED <<convVars, plotVars>>

\* Browse next to the fluid states: the dialog returns '' or a file
BrowseStates(file_name) ==
    /\ CanEdit
    /\ \E w0 \in {Window} : \E w \in {select_fluid_states_file(w0, file_name)} :
          Handled("select_fluid_states_file", w) /\ Edited(w)
    /\ UNCHANGED <<convVars, plotVars>>

\* Browse next to the connections
BrowseConnections(file_name) ==
    /\ CanEdit
    /\ \E w0 \in {Window} : \E w \in {select_connections_file(w0, file_name)} :
          Handled("select_connections_file", w) /\ Edited(w)
    /\ UNCHANGED <<convVars, plotVars>>

\* the Update Plot button is clicked
ClickUpdate ==
    /\ gAlive
    /\ \E w0 \in {Window} : \E w \in {update_plot(w0)} : Handled("update_plot", w)
    /\ UNCHANGED <<gEdits, gCheckedEdits, gAutoRuns>>
    /\ UNCHANGED <<convVars, plotVars>>

\* a pending timer fires: auto_update_plot
TimerFire ==
    /\ gAlive /\ gTimers > 0
    /\ \E w0 \in {[Window EXCEPT !.timers = @ - 1]} :
       \E w \in {auto_update_plot(w0)} : Handled("auto_update_plot", w)
    /\ gAutoRuns' = gAutoRuns + 1
    /\ UNCHANGED <<gEdits, gCheckedEdits>>
    /\ UNCHANGED <<convVars, plotVars>>

Next ==
    \/ \E fluid \in FluidNames : EditFluid(fluid)
    \/ \E e \in TypedTexts : EditField(e[1], e[2])
    \/ \E path \in TypedPaths : EditStatesPath(path)
    \/ \E path \in TypedPaths : EditConnectionsPath(path)
    \/ \E kind \in Kinds : \E unit \in UnitMenu(kind) : SelectUnit(kind, unit)
    \/ \E diagram_type \in DiagramTypes : SelectDiagram(diagram_type)
    \/ \E color \in {"blue", "red"} : SelectColor("T", color)
    \/ \E style \in {"-", "--"} : SelectStyle("T", style)
    \/ ToggleAuto
    \/ \E file_name \in {"", "states.json", "notes.txt"} : BrowseStates(file_name)
    \/ \E file_name \in {"", "cycle.json", "loose.json", "notes.txt"} :
           BrowseConnections(file_name)
    \/ ClickUpdate
    \/ TimerFire

-----------------------------------------------------------------------------
(* The specifications *)

vars == <<convVars, plotVars, guiVars>>

\* the part of the state a specification does not use stays as it is
ConvIdle ==
    /\ cKind = "T" /\ cFrom = "K" /\ cUnit = "K"
    /\ cOrig = RInt(0) /\ cVal = RInt(0) /\ cDirect = RInt(0)
    /\ cPath = <<>>

PlotIdle ==
    /\ pFluid = "CO2" /\ pUnits = DefaultUnits /\ pDiagram = "Ts"
    /\ pInput = <<>> /\ pConns = <<>>
    /\ pPhase = "new" /\ pStates = <<>> /\ pErr = "none"
    /\ pAxes = NoAxes /\ pCbar = NoCbar

InitConv == ConvInit /\ PlotIdle /\ GuiInit

SpecConv == InitConv /\ [][ConvNext]_vars

InitPlot == PlotInit /\ ConvIdle /\ GuiInit

SpecPlot == InitPlot /\ [][PlotNext]_vars

Init == GuiInit /\ ConvIdle /\ PlotIdle

Spec == Init /\ [][Next]_vars

-----------------------------------------------------------------------------
(* C1: unit conversions round-trip.  For each of the six quantity kinds    *)
(* and every ordered pair of its units (u1, u2), a value converted from u1 *)
(* to u2 and then from u2 back to u1 is the original value.                *)
C1_RoundTrip ==
    (Len(cPath) = 2 /\ cPath[2] = cFrom) => cVal = cOrig

\* a pressure in bar was converted to psi and back
C1_Witness ==
    /\ cKind = "p" /\ cFrom = "bar" /\ cOrig = Rat(75, 1)
    /\ cPath = <<"psi", "bar">>
    /\ cVal = cOrig

(* C2: temperature conversion is pairwise consistent across K, °C, °F: a   *)
(* value converted a -> b -> c equals the value converted a -> c directly, *)
(* and a conversion with old_unit = new_unit returns the value unchanged.  *)
C2_TemperatureConsistent ==
    cKind = "T" =>
        /\ Len(cPath) = 2 => cVal = cDirect
        /\ (Len(cPath) = 1 /\ cPath[1] = cFrom) => cVal = cOrig

\* 18.5 °C went to K and then to °F: 65.3 °F either way
C2_Witness ==
    /\ cKind = "T" /\ cFrom = "°C" /\ cOrig = Rat(37, 2)
    /\ cPath = <<"K", "°F">>
    /\ cVal = Rat(653, 10)
    /\ cDirect = Rat(653, 10)

-----------------------------------------------------------------------------
(* Claims about FluidDiagramPlotter, checked under SpecPlot *)

\* the plotter exists: __init__ returned
Constructed == pPhase \in {"constructed", "plotted", "plot_failed"}

\* Ta, Sa, va, pa, ha of input sample j of point i, for a fluid the stub knows
C3_Quantities(i, j) ==
    LET p_pa  == bar_to_Pa(pInput[i][2][j][1])
        h_jkg == RMul(pInput[i][2][j][2], RInt(1000))
        props == calculate_properties(pFluid, p_pa, h_jkg).val
    IN  P_convert_units(pUnits, props[1], props[2], props[3], p_pa, h_jkg)

\* the pair the claim names for each diagram type
C3_Expected(d, q) ==
    CASE d = "Ts"    -> <<q[1], q[2]>>
      [] d = "hs"    -> <<q[5], q[2]>>
      [] d = "logph" -> <<q[4], q[5]>>
      [] d = "Th"    -> <<q[1], q[5]>>
      [] d = "plogv" -> <<q[3], q[4]>>

\* the positions (in Ta, Sa, va, pa, ha) of the two axes of each type
C3_Axes(d) ==
    CASE d = "Ts"    -> {1, 2}
      [] d = "hs"    -> {5, 2}
      [] d = "logph" -> {4, 5}
      [] d = "Th"    -> {1, 5}
      [] d = "plogv" -> {3, 4}

\* other values for the quantities that are no axis
C3_Probes == {RInt(-7), Rat(1, 3)}

(* C3: for each of the five diagram types format_converted_state returns   *)
(* the pair of the two converted quantities that are the diagram's axes,   *)
(* Ts -> (Ta, Sa), hs -> (ha, Sa), logph -> (pa, ha), Th -> (Ta, ha),      *)
(* plogv -> (va, pa), and the other three inputs do not influence it: every *)
(* state the constructor stored is that pair, and replacing the other      *)
(* three quantities by any other values gives the same result.             *)
C3_FormatPairs ==
    (Constructed /\ pDiagram \in DiagramTypes) =>
        \A i \in 1..Len(pInput) : \A j \in 1..Len(pInput[i][2]) :
            LET q == C3_Quantities(i, j)
            IN  /\ pStates[i][2][j] = C3_Expected(pDiagram, q)
                /\ \A alt \in [1..5 -> C3_Probes] :
                      LET q2 == [n \in 1..5 |->
                                    IF n \in C3_Axes(pDiagram) THEN q[n] ELSE alt[n]]
                      IN  format_converted_state(pDiagram, q2[1], q2[2], q2[3],
                                                 q2[4], q2[5])
                            = Ok(pStates[i][2][j])

\* an hs plotter for CO2 in the form's default units: the first sample,
\* 11 bar and 110 kJ/kg, became (ha, Sa) = (110, 1500)
C3_Witness ==
    /\ pPhase = "constructed" /\ pDiagram = "hs"
    /\ pFluid = "CO2" /\ pUnits = DefaultUnits
    /\ Len(pStates) = 2 /\ Len(pStates[1][2]) = 2
    /\ pStates[1][2][1] = <<RInt(110), RInt(1500)>>

(* C4: for a diagram type outside the five, format_converted_state raises  *)
(* ValueError instead of returning coordinates; so convert_states and the  *)
(* constructor produce no converted state: with at least one input sample  *)
(* the constructor fails with ValueError and self.states is never set, and *)
(* without samples the result holds no coordinates.                        *)
C4_UnsupportedType ==
    (pDiagram \notin DiagramTypes /\ pPhase # "new") =>
        /\ \A i \in 1..Len(pStates) : pStates[i][2] = <<>>
        /\ (\E i \in 1..Len(pInput) : pInput[i][2] # <<>>) =>
              (pPhase = "init_failed" /\ pErr = "ValueError" /\ pStates = <<>>)
        /\ \A q \in [1..5 -> C3_Probes] :
              format_converted_state(pDiagram, q[1], q[2], q[3], q[4], q[5])
                = Raise("ValueError")

\* a known fluid, samples to convert, and the constructor failed on the type
C4_Witness ==
    /\ pDiagram = UnsupportedType /\ pFluid = "H2O"
    /\ Len(pInput) = 2 /\ Len(pInput[2][2]) = 1 /\ pInput[1][2] = <<>>
    /\ pPhase = "init_failed" /\ pErr = "ValueError" /\ pStates = <<>>

(* C5: when every point of the fluid-states mapping has N samples,         *)
(* add_color_bar sets exactly N ticks, at 0..N-1, labelled 1..N.           *)
C5_ColorBarTicks ==
    (pPhase = "plotted" /\ \A i \in 1..Len(pInput) :
                              Len(pInput[i][2]) = Len(pInput[1][2])) =>
        LET N == Len(pInput[1][2])
        IN  /\ pCbar.present
            /\ Len(pCbar.ticks) = N
            /\ \A i \in 1..N : pCbar.ticks[i] = i - 1
            /\ Len(pCbar.labels) = N
            /\ \A i \in 1..N : pCbar.labels[i] = i

\* two points with two samples each were plotted: ticks 0, 1 labelled 1, 2
C5_Witness ==
    /\ pPhase = "plotted"
    /\ Len(pInput) = 2 /\ Len(pInput[1][2]) = 2 /\ Len(pInput[2][2]) = 2
    /\ pCbar = [present |-> TRUE, ticks |-> <<0, 1>>, labels |-> <<1, 2>>]

-----------------------------------------------------------------------------
C7_IndicatorStaysOnFailure ==
    (gLast.handler \in {"update_plot", "auto_update_plot"} /\ gLast.log.dialogs > 0)
        => gNeedsUpdate

(* C8: a failed update_plot leaves the canvas figure, its axes and drawn   *)
(* content, as it was before the attempt.                                  *)
C8_CanvasKeptOnFailure ==
    (gLast.handler \in {"update_plot", "auto_update_plot"} /\ gLast.log.dialogs > 0)
        => gCanvas = gLast.before

(* C9: on every path that loads a fluid-states or connections file, a      *)
(* missing or invalid file (an empty path, a file that does not exist, a   *)
(* file that is no JSON) is shown in an error dialog and no exception      *)
(* leaves the handler.                                                     *)
C9_LoadFailureShown ==
    gLast.log.load # "none" =>
        (gLast.log.dialogs >= 1 /\ gLast.log.escaped = "none")

(* C10: in every handler that parses a numeric field, a malformed text     *)
(* (not empty, no number) is shown in an error dialog and no exception     *)
(* leaves the handler.                                                     *)
C10_MalformedFieldShown ==
    gLast.log.malformed =>
        (gLast.log.dialogs >= 1 /\ gLast.log.escaped = "none")

-----------------------------------------------------------------------------
(* Claims about the unit-change handler, checked under Spec *)

\* the quantity kinds get_axis_units gives the x and the y axis
axis_quantities(diagram_type) ==
    CASE diagram_type = "Ts"    -> <<"s", "T">>
      [] diagram_type = "hs"    -> <<"s", "h">>
      [] diagram_type = "logph" -> <<"h", "p">>
      [] diagram_type = "Th"    -> <<"h", "T">>
      [] diagram_type = "plogv" -> <<"v", "p">>

\* the four axis-limit edits with the axis each belongs to (1 is x, 2 is y)
AxisLimitNames == <<"xmin", "xmax", "ymin", "ymax">>
AxisOf == <<1, 1, 2, 2>>

\* a text float() accepts
IsNumber(text) == text.kind \in {"int", "float"}

\* every range edit of T, p, s, h, v and every axis-limit edit holds a number
AllNumbers(form) ==
    /\ \A k \in Kinds \ {"Q"} : \A e \in {"start", "end"} : IsNumber(form.text[<<k, e>>])
    /\ \A f \in AxisFields : IsNumber(form.text[f])

(* C11: for every diagram type and every change of a unit, with numbers in *)
(* all fields, convert_units ends without an exception, and each axis      *)
(* limit is its former value converted, by the conversion of the quantity  *)
(* kind get_axis_units gives its axis, from the previous unit of that kind *)
(* to the selected one.                                                    *)
C11_AxisLimitsConverted ==
    [][(gLast'.handler = "convert_units" /\ AllNumbers(gForm)) =>
          /\ gLast'.log.escaped = "none"
          /\ \A i \in 1..4 :
                LET kind == axis_quantities(gForm'.diagram)[AxisOf[i]]
                    edit == <<"axis", AxisLimitNames[i]>>
                IN  gForm'.text[edit].num =
                        convert_by_field_type(kind, gForm.text[edit].num,
                                              gPreviousUnits[kind], gForm'.units[kind])
      ]_vars

-----------------------------------------------------------------------------
(* Claims about the connection lines, checked under SpecPlot *)

\* the style the claim gives a line type
C12_Style(line_type) ==
    IF line_type = "isentropic" THEN [color |-> "green", linestyle |-> "--"]
    ELSE IF line_type = "non-isentropic" THEN [color |-> "gray", linestyle |-> "-"]
    ELSE [color |-> "gray", linestyle |-> ":"]

(* C12: the k-th line drawn has the style of the k-th connection's line    *)
(* type (isentropic, non-isentropic, and the default style for any other   *)
(* value), and when create_plot returns, plot_connections has drawn        *)
(* exactly one line per connection, in list order.                         *)
C12_ConnectionStyles ==
    /\ Len(pAxes.lines) <= Len(pConns)
    /\ \A k \in 1..Len(pAxes.lines) : pAxes.lines[k].style = C12_Style(pConns[k][3])
    /\ pPhase = "plotted" => Len(pAxes.lines) = Len(pConns)

\* two connections were drawn: a non-isentropic one, then one of another type
C12_Witness ==
    /\ pPhase = "plotted" /\ Len(pConns) = 2
    /\ pConns[1][3] = "non-isentropic" /\ pConns[2][3] = "isobaric"
    /\ Len(pAxes.lines) = 2
    /\ pAxes.lines[1].style = [color |-> "gray", linestyle |-> "-"]
    /\ pAxes.lines[2].style = [color |-> "gray", linestyle |-> ":"]


(* C13: each quantity kind is converted on its own.  When the unit of one  *)
(* kind is changed, with numbers in all fields, the start and end values   *)
(* of every other kind stay as they are, and so does every axis limit      *)
(* whose axis is of another kind.                                          *)
C13_OtherKindsUnchanged ==
    [][\A k \in Kinds :
          (gForm'.units[k] # gForm.units[k] /\ AllNumbers(gForm)) =>
             /\ \A j \in Kinds \ {k} : \A e \in {"start", "end"} :
                   gForm'.text[<<j, e>>].num = gForm.text[<<j, e>>].num
             /\ \A i \in 1..4 :
                   axis_quantities(gForm.diagram)[AxisOf[i]] # k =>
                      gForm'.text[<<"axis", AxisLimitNames[i]>>].num
                         = gForm.text[<<"axis", AxisLimitNames[i]>>].num
      ]_vars


(* C14: for a logph diagram convert_states turns each input sample         *)
(* (p_bar, h_kJkg) into (p, h) in the selected pressure and enthalpy       *)
(* units: the input pair itself for bar and kJ/kg, (p_bar * 1e5,           *)
(* h_kJkg * 1e3) for Pa and J/kg; and the result has the input's point     *)
(* names, in order, with as many samples per point, in order.              *)
C14_SamplesInDisplayUnits ==
    (Constructed /\ pDiagram = "logph") =>
        /\ Len(pStates) = Len(pInput)
        /\ \A i \in 1..Len(pInput) :
              /\ pStates[i][1] = pInput[i][1]
              /\ Len(pStates[i][2]) = Len(pInput[i][2])
              /\ \A j \in 1..Len(pInput[i][2]) :
                    LET in == pInput[i][2][j]
                        out == pStates[i][2][j]
                    IN  /\ (pUnits["p"] = "bar" /\ pUnits["h"] = "kJ/kg") => out = in
                        /\ (pUnits["p"] = "Pa" /\ pUnits["h"] = "J/kg") =>
                              out = <<RMul(in[1], RInt(100000)), RMul(in[2], RInt(1000))>>
                        /\ out = <<convert_pressure(in[1], "bar", pUnits["p"]),
                                   convert_enthalpy(in[2], "kJ/kg", pUnits["h"])>>

\* a logph plotter in Pa and J/kg was constructed from two points with two
\* samples each: 11 bar, 110 kJ/kg became 1100000 Pa, 110000 J/kg
C14_Witness ==
    /\ Constructed /\ pDiagram = "logph"
    /\ pUnits["p"] = "Pa" /\ pUnits["h"] = "J/kg"
    /\ Len(pInput) = 2 /\ Len(pInput[1][2]) = 2 /\ Len(pInput[2][2]) = 2
    /\ pInput[1][2][1] = <<RInt(11), RInt(110)>>
    /\ pStates[1][2][1] = <<RInt(1100000), RInt(110000)>>

-----------------------------------------------------------------------------
(* Claims about the update indicator and the timers, checked under Spec *)

(* C15: a timer that fires while the Automatic Update checkbox is          *)
(* unchecked does not run update_plot: its slot shows no dialog, reads no  *)
(* file and leaves the figure as it was.                                   *)
C15_TimerRespectsCheckbox ==
    (gLast.handler = "auto_update_plot" /\ ~gForm.auto) =>
        (gLast.log = NoLog /\ gCanvas = gLast.before)


(* C16: every edit of an input that update_plot reads (the fluid, a unit,  *)
(* the diagram type, an axis limit, an isoline range, point count, colour, *)
(* style or line width, a file path) turns the update indicator to "needs  *)
(* update".  The Automatic Update checkbox is no such input.               *)
C16_EditMarksUpdate ==
    [][[gForm' EXCEPT !.auto = gForm.auto] # gForm => gNeedsUpdate']_vars


\* the kinds convert_units converts; the vapor fraction has no conversion and
\* previous_units is never read for it
ConvertedKinds == <<"T", "p", "s", "h", "v">>

(* C17: every unit-selection change, with numbers in all range fields and  *)
(* whatever the diagram type, leaves previous_units equal to the selected  *)
(* units and each start and end field of T, p, s, h, v equal to its former *)
(* value converted from the unit selected before to the unit selected now  *)
(* (unchanged when the unit of its kind is the same).  Step by step this   *)
(* is the claim for any sequence of such changes: no conversion is skipped *)
(* or applied twice.                                                       *)
C17_UnitsTracked ==
    [][(gForm'.units # gForm.units /\ AllNumbers(gForm)) =>
          \A n \in 1..5 :
             LET k == ConvertedKinds[n]
             IN  /\ gPreviousUnits'[k] = gForm'.units[k]
                 /\ \A e \in {"start", "end"} :
                       gForm'.text[<<k, e>>].num =
                          convert_by_field_type(k, gForm.text[<<k, e>>].num,
                                                gForm.units[k], gForm'.units[k])
      ]_vars


\* the axis limits have the values of the start and end fields of the
\* quantities get_axis_units gives the two axes of the selected diagram type
C18_AxisMatchesRanges(form) ==
    \A i \in 1..4 :
        form.text[<<"axis", AxisLimitNames[i]>>].num =
            form.text[<<axis_quantities(form.diagram)[AxisOf[i]],
                        <<"start", "end", "start", "end">>[i]>>].num

(* C18: after update_default_isoline_values has run (a fluid-name edit or  *)
(* a diagram-type change) x-min/x-max are the start/end of the x quantity  *)
(* and y-min/y-max the start/end of the y quantity of the diagram type;    *)
(* and a unit change, with numbers in all fields, keeps these values       *)
(* equal.                                                                  *)
C18_AxisLimitsFollowRanges ==
    [][/\ gLast'.handler = "update_default_isoline_values" =>
             C18_AxisMatchesRanges(gForm')
       /\ (gForm'.units # gForm.units /\ AllNumbers(gForm)
             /\ C18_AxisMatchesRanges(gForm)) =>
             C18_AxisMatchesRanges(gForm')
      ]_vars

-----------------------------------------------------------------------------
(* C19: every line drawn for a connection (start, end, line_type) joins    *)
(* the first sample of the point whose name is exactly start to the first  *)
(* sample of the point whose name is exactly end (ax.plot gets the two     *)
(* second coordinates as xs and the two first coordinates as ys), whatever *)
(* the other point names and their order.  Checked under SpecPlot.         *)
C19_ExactEndpoints ==
    \A k \in 1..Len(pAxes.lines) :
        \A i, j \in 1..Len(pStates) :
            (/\ pStates[i][1] = pConns[k][1] /\ pStates[i][2] # <<>>
             /\ pStates[j][1] = pConns[k][2] /\ pStates[j][2] # <<>>) =>
                /\ pAxes.lines[k].xs = <<pStates[i][2][1][2], pStates[j][2][1][2]>>
                /\ pAxes.lines[k].ys = <<pStates[i][2][1][1], pStates[j][2][1][1]>>

\* not start_input.text().strip() or not end_input.text().strip()
BlankKind(form, field_type) ==
    blank(form.text[<<field_type, "start">>]) \/ blank(form.text[<<field_type, "end">>])

\* the test of convert_diagram_axis_limits: one of the four limits is blank
AxisBlank(form) == \E edit \in AxisFields : blank(form.text[edit])

\* every range convert_units reads is either skipped or holds two numbers,
\* and so are the axis limits: no float() of convert_units can fail
RangesParse(form) ==
    /\ \A n \in 1..5 :
          \/ BlankKind(form, ConvertedKinds[n])
          \/ \A e \in {"start", "end"} : IsNumber(form.text[<<ConvertedKinds[n], e>>])
    /\ AxisBlank(form) \/ \A edit \in AxisFields : IsNumber(form.text[edit])

(* C20: in every run of convert_units, (1) a kind whose start or end field *)
(* is blank keeps both texts, (2) when one of the four axis limits is      *)
(* blank all four keep their texts, and (3) the skipped calls raise        *)
(* nothing and the other conversions still run: with every other field a   *)
(* number, no ValueError leaves the slot, each kind with two numbers is    *)
(* converted from previous_units to the selected unit, and when an axis    *)
(* limit is blank the slot ends without an exception and stores            *)
(* previous_units.  (With numbers in all four axis limits the only         *)
(* exception left is the KeyError of convert_value for hs and Th.)         *)
C20_BlankFieldsSkipped ==
    [][gLast'.handler = "convert_units" =>
          /\ \A n \in 1..5 : \A e \in {"start", "end"} :
                BlankKind(gForm, ConvertedKinds[n]) =>
                   gForm'.text[<<ConvertedKinds[n], e>>] = gForm.text[<<ConvertedKinds[n], e>>]
          /\ AxisBlank(gForm) =>
                \A edit \in AxisFields : gForm'.text[edit] = gForm.text[edit]
          /\ RangesParse(gForm) =>
                /\ gLast'.log.escaped \in {"none", "KeyError"}
                /\ gLast'.log.escaped = "KeyError" =>
                      ~AxisBlank(gForm) /\ gForm.diagram \in {"hs", "Th"}
                /\ gLast'.log.escaped = "none" => gPreviousUnits' = gForm'.units
                /\ \A n \in 1..5 : \A e \in {"start", "end"} :
                      LET k == ConvertedKinds[n]
                      IN  ~BlankKind(gForm, k) =>
                             gForm'.text[<<k, e>>] =
                                str(convert_by_field_type(k, gForm.text[<<k, e>>].num,
                                                          gPreviousUnits[k], gForm'.units[k]))
      ]_vars

\* convert_units has run with the entropy start and x-min blank: both are
\* still blank, the entropy end was not rewritten although the entropy unit
\* is another one, and the enthalpy range was rewritten by str(float)
C20_Witness ==
    /\ gLast.handler = "convert_units"
    /\ gLast.log.escaped = "none"
    /\ blank(gForm.text[<<"s", "start">>])
    /\ blank(gForm.text[<<"axis", "xmin">>])
    /\ gForm.units["s"] = "kJ/kgK"
    /\ gPreviousUnits = gForm.units
    /\ gForm.text[<<"s", "end">>].kind = "int"
    /\ gForm.text[<<"h", "start">>].kind = "float"

\* the value of one quantity of a sample (p_bar, h_kjkg) in the plotter's
\* display units: the element of convert_units' tuple (Ta, Sa, va, pa, ha)
\* that holds the quantity
display_quantity(kind, fluid, unit_system, sample) ==
    LET at == CASE kind = "T" -> 1 [] kind = "s" -> 2 [] kind = "v" -> 3
                [] kind = "p" -> 4 [] kind = "h" -> 5
        of(props, p_pa, h_jkg) ==
            P_convert_units(unit_system, props.val[1], props.val[2], props.val[3],
                            p_pa, h_jkg)[at]
        calculated(p_pa, h_jkg) ==
            of(calculate_properties(fluid, p_pa, h_jkg), p_pa, h_jkg)
    IN  calculated(bar_to_Pa(sample[1]), RMul(sample[2], RInt(1000)))

\* the samples of the input mapping in iteration order
InputSamples == Flatten([i \in 1..Len(pInput) |-> pInput[i][2]])

(* C21: for every diagram type, every marker plot_fluid_states has drawn   *)
(* has as its x coordinate the sample's value of the quantity of the       *)
(* diagram's x axis (the one get_axis_units and update_axis_limits use for *)
(* x-min/x-max), and as its y coordinate the value of the quantity of the  *)
(* y axis, both in the display units.                                      *)
C21_MarkersOnAxes ==
    \A n \in 1..Len(pAxes.markers) :
       /\ pAxes.markers[n].x =
             display_quantity(axis_quantities(pDiagram)[1], pFluid, pUnits, InputSamples[n])
       /\ pAxes.markers[n].y =
             display_quantity(axis_quantities(pDiagram)[2], pFluid, pUnits, InputSamples[n])

\* the physical ranges the isoline fields denote: each start and end number
\* of T, p, s, h, v read in the selected unit of its kind and expressed in
\* one fixed unit (the unit the form starts with)
physical_ranges(form) ==
    [n \in 1..5 |-> [e \in {"start", "end"} |->
        convert_by_field_type(ConvertedKinds[n], form.text[<<ConvertedKinds[n], e>>].num,
                              form.units[ConvertedKinds[n]], DefaultUnits[ConvertedKinds[n]])]]

(* C22: when update_default_isoline_values has written the H2O or CO2      *)
(* defaults, the physical ranges of the isoline fields (number together    *)
(* with the selected unit) are those the same call gives with the units    *)
(* the form starts with: they do not depend on the units selected at that  *)
(* moment.                                                                 *)
C22_DefaultsKeepMeaning ==
    [][(gLast'.handler = "update_default_isoline_values" /\ gForm'.fluid \in {"H2O", "CO2"}) =>
          \A w \in {update_default_isoline_values(
                       [Window EXCEPT !.form.fluid = gForm'.fluid,
                                      !.form.units = DefaultUnits])} :
             physical_ranges(gForm') = physical_ranges(w.form)
      ]_vars

\* The window with Qt's event loop running: a started single-shot timer fires
\* after its two seconds.  Nothing makes the user act.
LiveSpec == Init /\ [][Next]_vars /\ WF_vars(TimerFire)

\* the slot that ran last was an update_plot run (button or timer)
JustUpdated == gLast.handler \in {"update_plot", "auto_update_plot"}

\* the window is running, Automatic Update is checked and the button is
\* marked as needing an update
AutoPending == gAlive /\ gForm.auto /\ gNeedsUpdate

(* C23: whenever the window is running with the Automatic Update checkbox  *)
(* checked and the button marked as needing an update, then, unless the    *)
(* user makes a further edit, an update_plot run eventually occurs: (a)    *)
(* from a state whose last slot was not an update_plot run, including the  *)
(* state right after the checkbox was checked; (b) from the state after a  *)
(* deferred update that failed and left no timer pending, where the next   *)
(* run can only show as a button click or follow a further edit.           *)
C23_AutoUpdateEventually ==
    \A n \in 0..MaxEdits :
       /\ (AutoPending /\ gEdits = n /\ ~JustUpdated) ~> (gEdits > n \/ JustUpdated)
       /\ (AutoPending /\ gEdits = n /\ gLast.handler = "auto_update_plot" /\ gTimers = 0)
             ~> (gEdits > n \/ gLast.handler = "update_plot")

=============================================================================
